---- MODULE Spec2Model ----
(***************************************************************************)
(* Model of scripts/remove_backup_seeds.py: the classification of the rows *)
(* of a prescale table into signal seeds and backup seeds.                *)
(*                                                                         *)
(* A Python str is modelled as the sequence of its characters, each a      *)
(* one-character TLA+ string; None is the sentinel NoneStr.  A float is a  *)
(* record [k, m, e] standing for m * 10^(-e) (k = "num"), for inf or nan,  *)
(* or for None (k = "None").  Thresholds in seed names are short decimal   *)
(* literals, on which IEEE doubles order exactly as the decimals do.       *)
(***************************************************************************)
EXTENDS Integers, Sequences, FiniteSets, TLC

VARIABLES
    table,              \* rows <<name, prescale>> of the input table
    idx,                \* number of rows the loop of the classifier has handled
    signal_seeds,       \* row indices appended to signal_seeds, in order
    backup_seeds,       \* row indices appended to backup_seeds, in order
    backup_seeds_info,  \* one record per backup row: seed, signal seeds, criteria
    pc,                 \* position of the table classifier ("error": it raised)
    call,               \* the arguments seed, prescale, otherseed, otherprescale
                        \* of one criterion call
    called,             \* the criterion that was called on them
    result              \* what that criterion returned

vars == <<table, idx, signal_seeds, backup_seeds, backup_seeds_info, pc,
          call, called, result>>

tableVars == <<table, idx, signal_seeds, backup_seeds, backup_seeds_info, pc>>
pairVars == <<call, called, result>>

----------------------------------------------------------------------------
(* Bounds of the model *)

MaxRows == 2
MaxPrescale == 2
MaxPt == 10
MaxChunks == 3

----------------------------------------------------------------------------
(* Python str primitives *)

NoneStr == <<"None">>

Digits == {"0", "1", "2", "3", "4", "5", "6", "7", "8", "9"}

LowerOf ==
    ("A" :> "a") @@ ("B" :> "b") @@ ("C" :> "c") @@ ("D" :> "d") @@
    ("E" :> "e") @@ ("F" :> "f") @@ ("G" :> "g") @@ ("H" :> "h") @@
    ("I" :> "i") @@ ("J" :> "j") @@ ("K" :> "k") @@ ("L" :> "l") @@
    ("M" :> "m") @@ ("N" :> "n") @@ ("O" :> "o") @@ ("P" :> "p") @@
    ("Q" :> "q") @@ ("R" :> "r") @@ ("S" :> "s") @@ ("T" :> "t") @@
    ("U" :> "u") @@ ("V" :> "v") @@ ("W" :> "w") @@ ("X" :> "x") @@
    ("Y" :> "y") @@ ("Z" :> "z")

UpperCase == DOMAIN LowerOf
LowerCase == {LowerOf[c] : c \in UpperCase}

IsDigit(c) == c \in Digits
IsLetter(c) == c \in UpperCase \/ c \in LowerCase

\* str.lower()
lower(s) == [i \in 1..Len(s) |-> IF s[i] \in UpperCase THEN LowerOf[s[i]] ELSE s[i]]

\* whether sub occurs in s at index i
MatchAt(s, i, sub) ==
    /\ i >= 1
    /\ i + Len(sub) - 1 <= Len(s)
    /\ \A k \in 1..Len(sub) : s[i + k - 1] = sub[k]

\* str.startswith, str.endswith, the operator "in" on two strings
startswith(s, p) == MatchAt(s, 1, p)
endswith(s, p) == MatchAt(s, Len(s) - Len(p) + 1, p)
In(sub, s) == \E j \in 1..(Len(s) - Len(sub) + 1) : MatchAt(s, j, sub)

\* the first index >= i at which sub occurs in s; 0 when there is none
RECURSIVE Find(_, _, _)
Find(s, sub, i) ==
    IF i + Len(sub) - 1 > Len(s) THEN 0
    ELSE IF MatchAt(s, i, sub) THEN i
    ELSE Find(s, sub, i + 1)

\* str.replace(old, new): every non-overlapping occurrence, left to right;
\* j is the next occurrence of old from index i on
RECURSIVE ReplaceAt(_, _, _, _, _)
ReplaceAt(s, old, new, i, j) ==
    IF j = 0 THEN SubSeq(s, i, Len(s))
    ELSE SubSeq(s, i, j - 1) \o new
         \o ReplaceAt(s, old, new, j + Len(old), Find(s, old, j + Len(old)))

replace(s, old, new) ==
    IF old = <<>> THEN s ELSE ReplaceAt(s, old, new, 1, Find(s, old, 1))

\* s[0:j-1], the text before index j; s itself when j = 0 (nothing found)
Before(s, j) == IF j = 0 THEN s ELSE SubSeq(s, 1, j - 1)

\* s.split(sep)[0]: the text before the first sep
SplitFirst(s, sep) == Before(s, Find(s, sep, 1))

\* the number of digits, of letters, of underscores of s from index i on
RECURSIVE DigitRun(_, _)
DigitRun(s, i) ==
    IF i >= 1 /\ i <= Len(s) /\ IsDigit(s[i]) THEN 1 + DigitRun(s, i + 1) ELSE 0

RECURSIVE LetterRun(_, _)
LetterRun(s, i) ==
    IF i >= 1 /\ i <= Len(s) /\ IsLetter(s[i]) THEN 1 + LetterRun(s, i + 1) ELSE 0

RECURSIVE UnderscoreRun(_, _)
UnderscoreRun(s, i) ==
    IF i >= 1 /\ i <= Len(s) /\ s[i] = "_" THEN 1 + UnderscoreRun(s, i + 1) ELSE 0

\* re.search('\d', s).start() + 1 from index i on; 0 when s holds no digit
RECURSIVE FirstDigit(_, _)
FirstDigit(s, i) ==
    IF i > Len(s) THEN 0
    ELSE IF IsDigit(s[i]) THEN i
    ELSE FirstDigit(s, i + 1)

\* the length of the match of (\d+p\d+|\d+) at index i, where d1 digits
\* stand; 0 when it does not match.  Each use is followed by the end of the
\* pattern or by a character that is neither a digit nor p, so the greedy
\* match is the only one.
NumLenAfter(s, i, d1) ==
    IF d1 = 0 THEN 0
    ELSE IF i + d1 <= Len(s) /\ s[i + d1] = "p" /\ DigitRun(s, i + d1 + 1) > 0
    THEN d1 + 1 + DigitRun(s, i + d1 + 1)
    ELSE d1

NumLen(s, i) == NumLenAfter(s, i, DigitRun(s, i))

----------------------------------------------------------------------------
(* Python float: the values float() yields on the strings of the model *)

NoneFloat == [k |-> "None", m |-> 0, e |-> 0]
InfFloat == [k |-> "inf", m |-> 0, e |-> 0]
NanFloat == [k |-> "nan", m |-> 0, e |-> 0]
Num(m, e) == [k |-> "num", m |-> m, e |-> e]

DigitVal ==
    ("0" :> 0) @@ ("1" :> 1) @@ ("2" :> 2) @@ ("3" :> 3) @@ ("4" :> 4) @@
    ("5" :> 5) @@ ("6" :> 6) @@ ("7" :> 7) @@ ("8" :> 8) @@ ("9" :> 9)

\* the number written by the n digits of s from index i on
RECURSIVE DigitsValue(_, _, _)
DigitsValue(s, i, n) ==
    IF n = 0 THEN 0 ELSE DigitsValue(s, i, n - 1) * 10 + DigitVal[s[i + n - 1]]

RECURSIVE Pow10(_)
Pow10(n) == IF n <= 0 THEN 1 ELSE 10 * Pow10(n - 1)

\* the float of d1 digits, a point and d2 digits (no point when pos = d1 + 1),
\* followed from index pos on by nothing or by an exponent
FloatExponent(s, d1, d2, pos) ==
    IF d1 + d2 = 0 THEN NoneFloat
    ELSE IF pos = Len(s) + 1
    THEN Num(DigitsValue(s, 1, d1) * Pow10(d2) + DigitsValue(s, d1 + 2, d2), d2)
    ELSE IF /\ s[pos] \in {"e", "E"}
            /\ DigitRun(s, pos + 1) >= 1
            /\ pos + 1 + DigitRun(s, pos + 1) = Len(s) + 1
    THEN Num(DigitsValue(s, 1, d1) * Pow10(d2) + DigitsValue(s, d1 + 2, d2),
             d2 - DigitsValue(s, pos + 1, DigitRun(s, pos + 1)))
    ELSE NoneFloat

FloatMantissa(s, d1) ==
    IF d1 + 1 <= Len(s) /\ s[d1 + 1] = "."
    THEN FloatExponent(s, d1, DigitRun(s, d1 + 2), d1 + 2 + DigitRun(s, d1 + 2))
    ELSE FloatExponent(s, d1, 0, d1 + 1)

\* float(s) for a str s without sign or blanks: digits with an optional
\* point and an optional exponent, or one of the words inf, infinity, nan
\* in any case; NoneFloat stands for the ValueError of any other s
float(s) ==
    IF lower(s) \in {<<"i", "n", "f">>, <<"i", "n", "f", "i", "n", "i", "t", "y">>}
    THEN InfFloat
    ELSE IF lower(s) = <<"n", "a", "n">> THEN NanFloat
    ELSE FloatMantissa(s, DigitRun(s, 1))

\* a.m and b.m at the larger of the two scales a.e, b.e
Scaled(a, b) == a.m * Pow10((IF a.e > b.e THEN a.e ELSE b.e) - a.e)

\* a < b, a > b, a >= b on two floats (false whenever one is nan)
FloatLt(a, b) ==
    \/ a.k = "num" /\ b.k = "inf"
    \/ a.k = "num" /\ b.k = "num" /\ Scaled(a, b) < Scaled(b, a)

FloatGt(a, b) == FloatLt(b, a)

FloatGe(a, b) == a.k # "nan" /\ b.k # "nan" /\ ~FloatLt(a, b)

\* a - b on two finite floats, in exact arithmetic
FloatSub(a, b) ==
    Num(Scaled(a, b) - Scaled(b, a), IF a.e > b.e THEN a.e ELSE b.e)

\* type(t) for t a float or None
TypeOf(t) == IF t.k = "None" THEN "NoneType" ELSE "float"

----------------------------------------------------------------------------
(* Helpers of the criteria *)

L1 == <<"L", "1", "_">>

\* basename[0:digits.start()] when basename holds a digit, else basename
UntilDigit(basename) == Before(basename, FirstDigit(basename, 1))

get_seed_basename(seed) ==
    IF ~startswith(seed, L1) THEN NoneStr
    ELSE L1 \o UntilDigit(SplitFirst(replace(seed, L1, <<>>), <<"_">>))

\* val.replace('p', '.') when val holds a p
PtoDot(val) == IF In(<<"p">>, val) THEN replace(val, <<"p">>, <<".">>) ELSE val

convert_to_float(val) ==
    IF val = NoneStr THEN NoneFloat
    ELSE float(PtoDot(replace(val, <<"_">>, <<>>)))

\* the tuple a criterion returns: (True, otherseed, label) or (False, None, None)
Negative == [is_backup |-> FALSE, signal_seed |-> NoneStr, criterion |-> "None"]

\* Returned with the name of otherseed in a negative result as well
Returned_otherseed_always(is_backup_candidate, otherseed, label) ==
    [is_backup |-> is_backup_candidate,
     signal_seed |-> otherseed,
     criterion |-> IF is_backup_candidate THEN label ELSE "None"]

Returned(is_backup_candidate, otherseed, label) ==
    [is_backup |-> is_backup_candidate,
     signal_seed |-> IF is_backup_candidate THEN otherseed ELSE NoneStr,
     criterion |-> IF is_backup_candidate THEN label ELSE "None"]

----------------------------------------------------------------------------
(* criterion_pT *)

NoMatch ==
    [found |-> FALSE, g1 |-> NoneStr, g2 |-> NoneStr, g3 |-> NoneStr,
     g5 |-> NoneStr, g6 |-> NoneStr, g7 |-> NoneStr]

\* The pattern of an n-object seed (n = 1..4) is
\*   basename(_*?)(\d+p\d+|\d+)($|(\_NUM{\_NUM}|\_[a-zA-Z]+))
\* with n - 1 further thresholds NUM = (\d+p\d+|\d+) in the first
\* alternative of group 4 (the single-object pattern has no such alternative).

\* the index after k groups \_NUM that start at index j; 0 when they do not match
RECURSIVE MoreEnd(_, _, _)
MoreEnd(s, j, k) ==
    IF k = 0 THEN j
    ELSE IF j <= Len(s) /\ s[j] = "_" /\ NumLen(s, j + 1) > 0
    THEN MoreEnd(s, j + 1 + NumLen(s, j + 1), k - 1)
    ELSE 0

\* the k-th of the further thresholds that start at index jt
MoreGroup(s, jt, k) == SubSeq(s, MoreEnd(s, jt, k - 1) + 1, MoreEnd(s, jt, k) - 1)

\* group 3 and the groups in it, for a match m that holds groups 1 and 2 and
\* ends its group 2 before index jt
PtTail(n, s, m, jt) ==
    IF jt > Len(s) THEN [m EXCEPT !.g3 = <<>>]
    ELSE IF n >= 2 /\ MoreEnd(s, jt, n - 1) > 0
    THEN [m EXCEPT !.g3 = SubSeq(s, jt, MoreEnd(s, jt, n - 1) - 1),
                   !.g5 = MoreGroup(s, jt, 1),
                   !.g6 = IF n >= 3 THEN MoreGroup(s, jt, 2) ELSE NoneStr,
                   !.g7 = IF n >= 4 THEN MoreGroup(s, jt, 3) ELSE NoneStr]
    ELSE IF s[jt] = "_" /\ LetterRun(s, jt + 1) > 0
    THEN [m EXCEPT !.g3 = SubSeq(s, jt, jt + LetterRun(s, jt + 1))]
    ELSE NoMatch

\* groups 1 and 2: the underscores from index j0 to jn - 1, then the threshold
PtNumber(n, s, j0, jn) ==
    IF NumLen(s, jn) = 0 THEN NoMatch
    ELSE PtTail(n, s,
                [NoMatch EXCEPT !.found = TRUE,
                                !.g1 = SubSeq(s, j0, jn - 1),
                                !.g2 = SubSeq(s, jn, jn + NumLen(s, jn) - 1)],
                jn + NumLen(s, jn))

\* the match of the pattern at index i
PtMatchAt(n, basename, s, i) ==
    IF ~MatchAt(s, i, basename) THEN NoMatch
    ELSE PtNumber(n, s, i + Len(basename),
                  i + Len(basename) + UnderscoreRun(s, i + Len(basename)))

\* re.search(pattern, s): the match at the leftmost index that has one
RECURSIVE PtSearchFrom(_, _, _, _)
PtSearchFrom(n, basename, s, i) ==
    IF i > Len(s) THEN NoMatch
    ELSE IF PtMatchAt(n, basename, s, i).found THEN PtMatchAt(n, basename, s, i)
    ELSE PtSearchFrom(n, basename, s, i + 1)

PtSearch(n, basename, s) == PtSearchFrom(n, basename, s, 1)

\* group(k) of a match is truthy: neither None nor empty
Truthy(g) == g # NoneStr /\ g # <<>>

\* the text that is replaced by the basename: the triple and quadruple
\* branches include group 3 when it converts to a float
replace_str(n, basename, m) ==
    IF n >= 3 /\ convert_to_float(m.g3) # NoneFloat
    THEN basename \o m.g1 \o m.g2 \o m.g3
    ELSE basename \o m.g1 \o m.g2

\* What criterion_pT extracts from one name s of an n-object seed, given the
\* match m of the pattern: the name with its thresholds stripped and the
\* thresholds t[1..4] (None from n + 1 on)
PtPartsOf(n, basename, s, m) ==
    IF m.found
    THEN [stripped |-> replace(s, replace_str(n, basename, m), basename),
          t |-> <<convert_to_float(m.g2),
                  IF n = 2 THEN convert_to_float(m.g3)
                  ELSE IF n >= 3 /\ Truthy(m.g5) THEN convert_to_float(m.g5)
                  ELSE NoneFloat,
                  IF n >= 3 /\ Truthy(m.g6) THEN convert_to_float(m.g6) ELSE NoneFloat,
                  IF n >= 4 /\ Truthy(m.g7) THEN convert_to_float(m.g7) ELSE NoneFloat>>]
    ELSE [stripped |-> s, t |-> <<NoneFloat, NoneFloat, NoneFloat, NoneFloat>>]

PtParts(n, basename, s) == PtPartsOf(n, basename, s, PtSearch(n, basename, s))

\* [type(t) for t in (the n thresholds)]
types(n, t) == [i \in 1..n |-> TypeOf(t[i])]

\* the lists allowed_types of the double, triple and quadruple branches; the
\* double branch writes None, the value, where the others write type(None),
\* and no type equals the value None
first_only_types(n) ==
    IF n = 2 THEN <<"float", "None">>
    ELSE [i \in 1..n |-> IF i = 1 THEN "float" ELSE "NoneType"]

all_given_types(n) == [i \in 1..n |-> "float"]

allowed_types(n) == {first_only_types(n), all_given_types(n)}

\* the single-object branch, on the parts a of seed and b of otherseed
pT_single(otherseed, a, b) ==
    IF a.stripped # b.stripped THEN Negative
    ELSE Returned(/\ a.t[1] # NoneFloat /\ b.t[1] # NoneFloat
                  /\ FloatGt(a.t[1], b.t[1]),
                  otherseed, "pT")

\* the double-, triple- and quadruple-object branches (n = 2, 3, 4)
pT_multi(n, otherseed, a, b) ==
    IF a.stripped # b.stripped THEN Negative
    ELSE IF types(n, a.t) \notin allowed_types(n)
            \/ types(n, b.t) \notin allowed_types(n) THEN Negative
    ELSE Returned(\/ /\ types(n, a.t) = first_only_types(n)
                     /\ types(n, b.t) = first_only_types(n)
                     /\ FloatGt(a.t[1], b.t[1])
                  \/ /\ types(n, a.t) = all_given_types(n)
                     /\ types(n, b.t) = all_given_types(n)
                     /\ \A i \in 1..n : FloatGe(a.t[i], b.t[i])
                     /\ \E i \in 1..n : FloatGt(a.t[i], b.t[i]),
                  otherseed, "pT")

\* the number of objects of the branch taken for a basename
objects(seed_basename) ==
    IF In(<<"d", "o", "u", "b", "l", "e">>, lower(seed_basename)) THEN 2
    ELSE IF In(<<"t", "r", "i", "p", "l", "e">>, lower(seed_basename)) THEN 3
    ELSE IF In(<<"q", "u", "a", "d">>, lower(seed_basename)) THEN 4
    ELSE 1

pT_branch(n, seed, otherseed, seed_basename, otherseed_basename) ==
    IF n = 1
    THEN pT_single(otherseed, PtParts(1, seed_basename, seed),
                   PtParts(1, seed_basename, otherseed))
    ELSE pT_multi(n, otherseed, PtParts(n, seed_basename, seed),
                  PtParts(n, seed_basename, otherseed))

pT_checked(seed, otherseed, seed_basename, otherseed_basename) ==
    IF seed_basename # otherseed_basename THEN Negative
    ELSE IF seed_basename = NoneStr \/ otherseed_basename = NoneStr THEN Negative
    ELSE pT_branch(objects(seed_basename), seed, otherseed,
                   seed_basename, otherseed_basename)

criterion_pT(seed, prescale, otherseed, otherprescale) ==
    pT_checked(seed, otherseed, get_seed_basename(seed), get_seed_basename(otherseed))

----------------------------------------------------------------------------
(* The patterns of the other cuts *)

er == <<"e", "r">>
dR_Max == <<"d", "R", "_", "M", "a", "x">>
dR_Min == <<"d", "R", "_", "M", "i", "n">>
Mass == <<"M", "a", "s", "s">>
to == <<"t", "o">>
Iso == <<"I", "s", "o">>
LooseIso == <<"L", "o", "o", "s", "e", "I", "s", "o">>

\* Mass(_*?)(\d+p\d+|\d+)to(\d+p\d+|\d+) at index i: the length of the match
\* when the first number starts at index jn and ends before index jt
MassLen(s, i, jn, jt) ==
    IF jt > jn /\ MatchAt(s, jt, to) /\ NumLen(s, jt + Len(to)) > 0
    THEN jt + Len(to) + NumLen(s, jt + Len(to)) - i
    ELSE 0

MassNumber(s, i, jn) == MassLen(s, i, jn, jn + NumLen(s, jn))

\* The length of the match at index i of the pattern named pat; 0 when it
\* does not match there:
\*   er, dR_Max, dR_Min:  pat(\d+)p(\d+)|pat(\d+)
\*   Mass:                Mass(_*?)(\d+p\d+|\d+)to(\d+p\d+|\d+)
\*   Iso:                 Iso|LooseIso
MatchLen(pat, s, i) ==
    IF pat = Iso
    THEN IF MatchAt(s, i, Iso) THEN Len(Iso)
         ELSE IF MatchAt(s, i, LooseIso) THEN Len(LooseIso)
         ELSE 0
    ELSE IF ~MatchAt(s, i, pat) THEN 0
    ELSE IF pat = Mass
    THEN MassNumber(s, i, i + Len(Mass) + UnderscoreRun(s, i + Len(Mass)))
    ELSE IF NumLen(s, i + Len(pat)) > 0 THEN Len(pat) + NumLen(s, i + Len(pat))
    ELSE 0

\* len(re.findall(pattern, s)): the non-overlapping matches, left to right
RECURSIVE FindAllFrom(_, _, _)
FindAllFrom(pat, s, i) ==
    IF i > Len(s) THEN 0
    ELSE IF MatchLen(pat, s, i) > 0
    THEN 1 + FindAllFrom(pat, s, i + MatchLen(pat, s, i))
    ELSE FindAllFrom(pat, s, i + 1)

findall(pat, s) == FindAllFrom(pat, s, 1)

\* re.search(pattern, s).group(0), or None when there is no match
RECURSIVE SearchFrom(_, _, _)
SearchFrom(pat, s, i) ==
    IF i > Len(s) THEN NoneStr
    ELSE IF MatchLen(pat, s, i) > 0 THEN SubSeq(s, i, i + MatchLen(pat, s, i) - 1)
    ELSE SearchFrom(pat, s, i + 1)

search(pat, s) == SearchFrom(pat, s, 1)

\* r without one trailing underscore
TrimUnderscore(r) == IF endswith(r, <<"_">>) THEN SubSeq(r, 1, Len(r) - 1) ELSE r

\* s with the matched text str removed; the mass and isolation criteria also
\* drop one trailing underscore
Stripped(s, str, trim) ==
    IF str = NoneStr THEN s
    ELSE IF trim THEN TrimUnderscore(replace(s, str, <<>>))
    ELSE replace(s, str, <<>>)

\* SameApartFrom without the check for several matches in one name
SameApartFrom_any_number(pat, trim, seed, otherseed) ==
    /\ get_seed_basename(seed) = get_seed_basename(otherseed)
    /\ ~(findall(pat, seed) = 0 /\ findall(pat, otherseed) = 0)
    /\ Stripped(seed, search(pat, seed), trim)
       = Stripped(otherseed, search(pat, otherseed), trim)

\* the checks that the criteria of one restriction share: same basename, at
\* most one match in each name, a match in one of them, and names that are
\* equal once the match is removed
SameApartFrom(pat, trim, seed, otherseed) ==
    /\ get_seed_basename(seed) = get_seed_basename(otherseed)
    /\ ~(findall(pat, seed) > 1 \/ findall(pat, otherseed) > 1)
    /\ ~(findall(pat, seed) = 0 /\ findall(pat, otherseed) = 0)
    /\ Stripped(seed, search(pat, seed), trim)
       = Stripped(otherseed, search(pat, otherseed), trim)

\* the value of a matched restriction: the match without its keyword
CutValue(str, keyword) ==
    IF str # NoneStr THEN convert_to_float(replace(str, keyword, <<>>))
    ELSE NoneFloat

----------------------------------------------------------------------------
(* criterion_er, criterion_dRmax, criterion_dRmin *)

\* er_tighter with <= in the place of <
er_tighter_or_equal(seed_er_val, otherseed_er_val) ==
    \/ /\ seed_er_val # NoneFloat /\ otherseed_er_val # NoneFloat
       /\ ~FloatGt(seed_er_val, otherseed_er_val)
    \/ /\ seed_er_val # NoneFloat /\ otherseed_er_val = NoneFloat
       /\ FloatGt(seed_er_val, Num(0, 0))

er_tighter(seed_er_val, otherseed_er_val) ==
    \/ /\ seed_er_val # NoneFloat /\ otherseed_er_val # NoneFloat
       /\ FloatLt(seed_er_val, otherseed_er_val)
    \/ /\ seed_er_val # NoneFloat /\ otherseed_er_val = NoneFloat
       /\ FloatGt(seed_er_val, Num(0, 0))

criterion_er(seed, prescale, otherseed, otherprescale) ==
    IF ~SameApartFrom(er, FALSE, seed, otherseed) THEN Negative
    ELSE Returned(er_tighter(CutValue(search(er, seed), er),
                             CutValue(search(er, otherseed), er)),
                  otherseed, "eta restriction")

dRmax_tighter(seed_dRmax_val, otherseed_dRmax_val) ==
    \/ /\ seed_dRmax_val # NoneFloat /\ otherseed_dRmax_val # NoneFloat
       /\ FloatLt(seed_dRmax_val, otherseed_dRmax_val)
    \/ /\ seed_dRmax_val # NoneFloat /\ otherseed_dRmax_val = NoneFloat
       /\ FloatGt(seed_dRmax_val, Num(0, 0))

criterion_dRmax(seed, prescale, otherseed, otherprescale) ==
    IF ~SameApartFrom(dR_Max, FALSE, seed, otherseed) THEN Negative
    ELSE Returned(dRmax_tighter(CutValue(search(dR_Max, seed), dR_Max),
                                CutValue(search(dR_Max, otherseed), dR_Max)),
                  otherseed, "dR_Max")

dRmin_tighter(seed_dRmin_val, otherseed_dRmin_val) ==
    \/ /\ seed_dRmin_val # NoneFloat /\ otherseed_dRmin_val # NoneFloat
       /\ FloatGt(seed_dRmin_val, otherseed_dRmin_val)
    \/ /\ seed_dRmin_val # NoneFloat /\ otherseed_dRmin_val = NoneFloat
       /\ FloatGt(seed_dRmin_val, Num(0, 0))

criterion_dRmin(seed, prescale, otherseed, otherprescale) ==
    IF ~SameApartFrom(dR_Min, FALSE, seed, otherseed) THEN Negative
    ELSE Returned(dRmin_tighter(CutValue(search(dR_Min, seed), dR_Min),
                                CutValue(search(dR_Min, otherseed), dR_Min)),
                  otherseed, "dR_Min")

----------------------------------------------------------------------------
(* criterion_MassXtoY *)

\* high - low for the text <low>to<high> whose "to" stands at index j
RangeWidth(range, j) ==
    FloatSub(convert_to_float(SubSeq(range, j + Len(to), Len(range))),
             convert_to_float(SubSeq(range, 1, j - 1)))

\* the text of a matched window from its first digit on
FromFirstDigit(mass_str) == SubSeq(mass_str, FirstDigit(mass_str, 1), Len(mass_str))

\* the width of a matched window Mass<low>to<high>
MassWidth(mass_str) ==
    RangeWidth(FromFirstDigit(mass_str), Find(FromFirstDigit(mass_str), to, 1))

mass_tighter(seed_mass_str, otherseed_mass_str) ==
    \/ /\ seed_mass_str # NoneStr /\ otherseed_mass_str # NoneStr
       /\ FloatLt(MassWidth(seed_mass_str), MassWidth(otherseed_mass_str))
    \/ seed_mass_str # NoneStr /\ otherseed_mass_str = NoneStr

criterion_MassXtoY(seed, prescale, otherseed, otherprescale) ==
    IF ~SameApartFrom(Mass, TRUE, seed, otherseed) THEN Negative
    ELSE Returned(mass_tighter(search(Mass, seed), search(Mass, otherseed)),
                  otherseed, "MassXtoY")

----------------------------------------------------------------------------
(* criterion_quality, criterion_prescale, criterion_isolation *)

SQ == <<"_", "S", "Q">>
DQ == <<"_", "D", "Q">>
OQ == <<"_", "O", "Q">>

\* all([quality not in s for quality in qualities])
no_quality(s) == ~In(SQ, s) /\ ~In(DQ, s) /\ ~In(OQ, s)

is_single_muon(seed_basename) ==
    In(<<"s", "i", "n", "g", "l", "e", "m", "u">>, lower(seed_basename))

is_multi_muon(seed_basename) ==
    \/ In(<<"d", "o", "u", "b", "l", "e", "m", "u">>, lower(seed_basename))
    \/ In(<<"t", "r", "i", "p", "l", "e", "m", "u">>, lower(seed_basename))
    \/ In(<<"q", "u", "a", "d", "m", "u">>, lower(seed_basename))

\* do_further_checks without the default quality of the multi-muon families
do_further_checks_no_default(seed, otherseed, seed_basename) ==
    \/ /\ is_single_muon(seed_basename)
       /\ \/ /\ no_quality(seed) \/ In(SQ, seed)
             /\ In(DQ, otherseed) \/ In(OQ, otherseed)
          \/ In(DQ, seed) /\ In(OQ, otherseed)
    \/ /\ is_multi_muon(seed_basename)
       /\ \/ In(SQ, seed) /\ (In(DQ, otherseed) \/ In(OQ, otherseed))
          \/ In(DQ, seed) /\ In(OQ, otherseed)

do_further_checks(seed, otherseed, seed_basename) ==
    \/ /\ is_single_muon(seed_basename)
       /\ \/ /\ no_quality(seed) \/ In(SQ, seed)
             /\ In(DQ, otherseed) \/ In(OQ, otherseed)
          \/ In(DQ, seed) /\ In(OQ, otherseed)
    \/ /\ is_multi_muon(seed_basename)
       /\ \/ /\ In(SQ, seed)
             /\ no_quality(otherseed) \/ In(DQ, otherseed) \/ In(OQ, otherseed)
          \/ /\ no_quality(seed) \/ In(DQ, seed)
             /\ In(OQ, otherseed)

\* s with the basename and the three quality tokens removed, in that order
QualityStripped(s, seed_basename) ==
    replace(replace(replace(replace(s, seed_basename, <<>>), SQ, <<>>), DQ, <<>>),
            OQ, <<>>)

quality_checked(seed, otherseed, seed_basename) ==
    IF seed_basename = NoneStr THEN Negative
    ELSE IF ~(is_single_muon(seed_basename) \/ is_multi_muon(seed_basename))
    THEN Negative
    ELSE IF ~startswith(otherseed, seed_basename) THEN Negative
    ELSE Returned(/\ do_further_checks(seed, otherseed, seed_basename)
                  /\ QualityStripped(seed, seed_basename)
                     = QualityStripped(otherseed, seed_basename),
                  otherseed, "muon quality")

criterion_quality(seed, prescale, otherseed, otherprescale) ==
    quality_checked(seed, otherseed, get_seed_basename(seed))

criterion_prescale(seed, prescale, otherseed, otherprescale) ==
    Returned(seed = otherseed /\ prescale > otherprescale, otherseed, "prescale")

iso_tighter(seed_iso_str, otherseed_iso_str) ==
    \/ seed_iso_str = Iso /\ otherseed_iso_str = LooseIso
    \/ seed_iso_str = Iso /\ otherseed_iso_str = NoneStr
    \/ seed_iso_str = LooseIso /\ otherseed_iso_str = NoneStr

criterion_isolation(seed, prescale, otherseed, otherprescale) ==
    IF ~SameApartFrom(Iso, TRUE, seed, otherseed) THEN Negative
    ELSE Returned(iso_tighter(search(Iso, seed), search(Iso, otherseed)),
                  otherseed, "isolation")

----------------------------------------------------------------------------
(* has_signal_seed *)

\* a name cell that is not a str (an empty cell read as a float)
NotStr == <<"NaN">>

IsStr(x) == x # NotStr

criterion_functions ==
    <<"prescale", "pT", "er", "dRmax", "dRmin", "MassXtoY", "quality", "isolation">>

Apply(criterion, seed, prescale, otherseed, otherprescale) ==
    CASE criterion = "prescale" -> criterion_prescale(seed, prescale, otherseed, otherprescale)
      [] criterion = "pT" -> criterion_pT(seed, prescale, otherseed, otherprescale)
      [] criterion = "er" -> criterion_er(seed, prescale, otherseed, otherprescale)
      [] criterion = "dRmax" -> criterion_dRmax(seed, prescale, otherseed, otherprescale)
      [] criterion = "dRmin" -> criterion_dRmin(seed, prescale, otherseed, otherprescale)
      [] criterion = "MassXtoY" -> criterion_MassXtoY(seed, prescale, otherseed, otherprescale)
      [] criterion = "quality" -> criterion_quality(seed, prescale, otherseed, otherprescale)
      [] criterion = "isolation" -> criterion_isolation(seed, prescale, otherseed, otherprescale)

\* raised: a criterion raised an error, which ends the loops
NoSignalSeed ==
    [is_backup_seed |-> FALSE, identified_signal_seeds |-> <<>>, criteria |-> <<>>,
     raised |-> FALSE]

\* Collect that stops at the first criterion that fired
Collect_first(acc, r) ==
    IF r.is_backup /\ ~acc.is_backup_seed
    THEN [is_backup_seed |-> TRUE,
          identified_signal_seeds |-> Append(acc.identified_signal_seeds, r.signal_seed),
          criteria |-> Append(acc.criteria, r.criterion),
          raised |-> acc.raised]
    ELSE acc

\* the accumulators acc after a criterion returned r
Collect(acc, r) ==
    IF r.is_backup
    THEN [is_backup_seed |-> TRUE,
          identified_signal_seeds |-> Append(acc.identified_signal_seeds, r.signal_seed),
          criteria |-> Append(acc.criteria, r.criterion),
          raised |-> acc.raised]
    ELSE acc

\* The criterion calls a str method on a name that is not a str: the cut
\* parsers start with get_seed_basename(seed), which calls seed.startswith,
\* and all but criterion_quality go on with get_seed_basename(otherseed);
\* criterion_quality calls otherseed.startswith once the basename of seed is
\* that of a muon seed; criterion_prescale only compares.
AttributeError(criterion, seed, otherseed) ==
    CASE criterion = "prescale" -> FALSE
      [] criterion = "quality" ->
            \/ seed = NotStr
            \/ /\ otherseed = NotStr
               /\ get_seed_basename(seed) # NoneStr
               /\ \/ is_single_muon(get_seed_basename(seed))
                  \/ is_multi_muon(get_seed_basename(seed))
      [] OTHER -> seed = NotStr \/ otherseed = NotStr

\* CriterionStep without the check of the types of the two names
CriterionStep_no_type_check(acc, criterion, seed, prescale, otherseed, otherprescale) ==
    IF acc.raised THEN acc
    ELSE IF AttributeError(criterion, seed, otherseed) THEN [acc EXCEPT !.raised = TRUE]
    ELSE Collect(acc, Apply(criterion, seed, prescale, otherseed, otherprescale))

\* one pass of the body of the inner loop
CriterionStep(acc, criterion, seed, prescale, otherseed, otherprescale) ==
    IF acc.raised THEN acc
    ELSE IF ~(IsStr(seed) /\ IsStr(otherseed)) THEN acc
    ELSE IF AttributeError(criterion, seed, otherseed) THEN [acc EXCEPT !.raised = TRUE]
    ELSE Collect(acc, Apply(criterion, seed, prescale, otherseed, otherprescale))

\* the accumulators after the first k (otherseed, criterion) combinations,
\* rows outermost
RECURSIVE SignalSeedLoop(_, _, _, _, _)
SignalSeedLoop(seed, prescale, all_seeds, all_prescales, k) ==
    IF k = 0 THEN NoSignalSeed
    ELSE CriterionStep(
             SignalSeedLoop(seed, prescale, all_seeds, all_prescales, k - 1),
             criterion_functions[((k - 1) % Len(criterion_functions)) + 1],
             seed, prescale,
             all_seeds[((k - 1) \div Len(criterion_functions)) + 1],
             all_prescales[((k - 1) \div Len(criterion_functions)) + 1])

\* zip(all_seeds, all_prescales) stops at the shorter list
ZipLen(all_seeds, all_prescales) ==
    IF Len(all_seeds) < Len(all_prescales) THEN Len(all_seeds) ELSE Len(all_prescales)

has_signal_seed(seed, prescale, all_seeds, all_prescales) ==
    SignalSeedLoop(seed, prescale, all_seeds, all_prescales,
                   ZipLen(all_seeds, all_prescales) * Len(criterion_functions))

----------------------------------------------------------------------------
(* separate_signal_and_backup_seeds: the table classifier *)

Prescales == 1..MaxPrescale

SingleMu == <<"S", "i", "n", "g", "l", "e", "M", "u">>

\* the names of the tables of the model: a signal seed, a seed with a higher
\* threshold, a seed with two quality tokens, and a cell that is not a str
TableNames ==
    {L1 \o SingleMu \o <<"5">>,
     L1 \o SingleMu \o <<"7">>,
     L1 \o SingleMu \o <<"7">> \o SQ \o DQ,
     NotStr}

\* the prescales of the rows: the lowest and the highest one
TablePrescales == {1, MaxPrescale}

Rows == [name : TableNames, prescale : TablePrescales]

\* get_name_col_idx raises unless some name cell is a str that starts with L1_
Tables ==
    {t \in UNION {[1..n -> Rows] : n \in 1..MaxRows} :
        \E i \in DOMAIN t : IsStr(t[i].name) /\ startswith(t[i].name, L1)}

names_column(t) == [i \in DOMAIN t |-> t[i].name]
PS_column(t) == [i \in DOMAIN t |-> t[i].prescale]

NoCall == [seed |-> <<>>, prescale |-> 0, otherseed |-> <<>>, otherprescale |-> 0]

Init ==
    /\ table \in Tables
    /\ idx = 0
    /\ signal_seeds = <<>>
    /\ backup_seeds = <<>>
    /\ backup_seeds_info = <<>>
    /\ pc = "loop"
    /\ call = NoCall
    /\ called = "none"
    /\ result = Negative

\* Route with the row put in front of the rows of its table
Route_front(i, r) ==
    IF r.is_backup_seed
    THEN /\ backup_seeds' = <<i>> \o backup_seeds
         /\ backup_seeds_info' =
                <<[seed |-> table[i].name,
                   signal_seeds |-> r.identified_signal_seeds,
                   criteria |-> r.criteria]>> \o backup_seeds_info
         /\ UNCHANGED signal_seeds
    ELSE /\ signal_seeds' = <<i>> \o signal_seeds
         /\ UNCHANGED <<backup_seeds, backup_seeds_info>>

\* Route with a backup row appended to the signal table as well
Route_both(i, r) ==
    IF r.is_backup_seed
    THEN /\ backup_seeds' = Append(backup_seeds, i)
         /\ backup_seeds_info' =
                Append(backup_seeds_info,
                       [seed |-> table[i].name,
                        signal_seeds |-> r.identified_signal_seeds,
                        criteria |-> r.criteria])
         /\ signal_seeds' = Append(signal_seeds, i)
    ELSE /\ signal_seeds' = Append(signal_seeds, i)
         /\ UNCHANGED <<backup_seeds, backup_seeds_info>>

\* the row with index i goes to one of the two tables, by what
\* has_signal_seed returned for it
Route(i, r) ==
    IF r.is_backup_seed
    THEN /\ backup_seeds' = Append(backup_seeds, i)
         /\ backup_seeds_info' =
                Append(backup_seeds_info,
                       [seed |-> table[i].name,
                        signal_seeds |-> r.identified_signal_seeds,
                        criteria |-> r.criteria])
         /\ UNCHANGED signal_seeds
    ELSE /\ signal_seeds' = Append(signal_seeds, i)
         /\ UNCHANGED <<backup_seeds, backup_seeds_info>>

\* the body of the loop for row i, given what has_signal_seed returned or
\* that it raised
Classify(i, r) ==
    IF r.raised
    THEN /\ pc' = "error"
         /\ UNCHANGED <<idx, signal_seeds, backup_seeds, backup_seeds_info>>
    ELSE /\ Route(i, r)
         /\ idx' = idx + 1
         /\ UNCHANGED pc

\* one iteration of the loop over the rows
ClassifyRow ==
    /\ pc = "loop"
    /\ idx < Len(table)
    /\ Classify(idx + 1,
                has_signal_seed(table[idx + 1].name, table[idx + 1].prescale,
                                names_column(table), PS_column(table)))
    /\ UNCHANGED <<table, pairVars>>

\* the loop is over: the two tables are returned
Return ==
    /\ pc = "loop"
    /\ idx = Len(table)
    /\ pc' = "done"
    /\ UNCHANGED <<table, idx, signal_seeds, backup_seeds, backup_seeds_info, pairVars>>

Next == ClassifyRow \/ Return

Spec == Init /\ [][Next]_vars

----------------------------------------------------------------------------
(* The rows classified in any order, by workers, and merged by row index *)

\* the sequential loop as a function of the table: the two outputs and the
\* evidence after its first k iterations
NoRows == [signal |-> <<>>, backup |-> <<>>, info |-> <<>>]

Appended(out, i, name, r) ==
    IF r.is_backup_seed
    THEN [signal |-> out.signal,
          backup |-> Append(out.backup, i),
          info |-> Append(out.info,
                          [seed |-> name,
                           signal_seeds |-> r.identified_signal_seeds,
                           criteria |-> r.criteria])]
    ELSE [out EXCEPT !.signal = Append(out.signal, i)]

RECURSIVE SequentialLoop(_, _)
SequentialLoop(t, k) ==
    IF k = 0 THEN NoRows
    ELSE Appended(SequentialLoop(t, k - 1), k, t[k].name,
                  has_signal_seed(t[k].name, t[k].prescale,
                                  names_column(t), PS_column(t)))

Range(s) == {s[k] : k \in DOMAIN s}

\* the number of the rows of rows that stand before row i in the table
RowsBefore(rows, i) == Cardinality({k \in DOMAIN rows : rows[k] < i})

\* s with x as its element number n + 1
InsertAfter(s, n, x) == SubSeq(s, 1, n) \o <<x>> \o SubSeq(s, n + 1, Len(s))

\* Merge that keeps the rows in the order the workers delivered them
Merge_as_delivered(i, r) ==
    IF r.is_backup_seed
    THEN /\ backup_seeds' = Append(backup_seeds, i)
         /\ backup_seeds_info' =
                Append(backup_seeds_info,
                       [seed |-> table[i].name,
                        signal_seeds |-> r.identified_signal_seeds,
                        criteria |-> r.criteria])
         /\ UNCHANGED signal_seeds
    ELSE /\ signal_seeds' = Append(signal_seeds, i)
         /\ UNCHANGED <<backup_seeds, backup_seeds_info>>

\* the result r of a worker for row i goes to its table at the place of row i
Merge(i, r) ==
    IF r.is_backup_seed
    THEN /\ backup_seeds' = InsertAfter(backup_seeds, RowsBefore(backup_seeds, i), i)
         /\ backup_seeds_info' =
                InsertAfter(backup_seeds_info, RowsBefore(backup_seeds, i),
                            [seed |-> table[i].name,
                             signal_seeds |-> r.identified_signal_seeds,
                             criteria |-> r.criteria])
         /\ UNCHANGED signal_seeds
    ELSE /\ signal_seeds' = InsertAfter(signal_seeds, RowsBefore(signal_seeds, i), i)
         /\ UNCHANGED <<backup_seeds, backup_seeds_info>>

ClassifyAndMerge(i, r) ==
    IF r.raised
    THEN /\ pc' = "error"
         /\ UNCHANGED <<idx, signal_seeds, backup_seeds, backup_seeds_info>>
    ELSE /\ Merge(i, r)
         /\ idx' = idx + 1
         /\ UNCHANGED pc

\* a worker runs the body of the loop for any row that is not classified
\* yet, on the name and prescale columns of the table
ClassifyAny ==
    /\ pc = "workers"
    /\ \E i \in DOMAIN table \ (Range(signal_seeds) \cup Range(backup_seeds)) :
           ClassifyAndMerge(i, has_signal_seed(table[i].name, table[i].prescale,
                                               names_column(table), PS_column(table)))
    /\ UNCHANGED <<table, pairVars>>

\* every row is classified: the merged tables are returned
ReturnMerged ==
    /\ pc = "workers"
    /\ idx = Len(table)
    /\ pc' = "done"
    /\ UNCHANGED <<table, idx, signal_seeds, backup_seeds, backup_seeds_info, pairVars>>

InitWorkers ==
    /\ table \in Tables
    /\ idx = 0
    /\ signal_seeds = <<>>
    /\ backup_seeds = <<>>
    /\ backup_seeds_info = <<>>
    /\ pc = "workers"
    /\ call = NoCall
    /\ called = "none"
    /\ result = Negative

NextWorkers == ClassifyAny \/ ReturnMerged

SpecWorkers == InitWorkers /\ [][NextWorkers]_vars

----------------------------------------------------------------------------
(* One criterion called on one pair of seeds *)

Call(criterion) ==
    /\ pc = "call"
    /\ called = "none"
    /\ called' = criterion
    /\ result' = Apply(criterion, call.seed, call.prescale,
                       call.otherseed, call.otherprescale)
    /\ UNCHANGED <<call, tableVars>>

CallPrescale == Call("prescale")
CallPT == Call("pT")
CallER == Call("er")
CallDRmax == Call("dRmax")
CallDRmin == Call("dRmin")
CallMassXtoY == Call("MassXtoY")
CallQuality == Call("quality")
CallIsolation == Call("isolation")

NextCall ==
    \/ CallPrescale \/ CallPT \/ CallER \/ CallDRmax
    \/ CallDRmin \/ CallMassXtoY \/ CallQuality \/ CallIsolation

\* the criteria are called on every ordered pair of names of Names
InitCall(Names) ==
    /\ call \in [seed : Names, prescale : Prescales,
                 otherseed : Names, otherprescale : Prescales]
    /\ called = "none"
    /\ result = Negative
    /\ table = <<>>
    /\ idx = 0
    /\ signal_seeds = <<>>
    /\ backup_seeds = <<>>
    /\ backup_seeds_info = <<>>
    /\ pc = "call"

----------------------------------------------------------------------------
(* The seed names of the calls, written from their cuts *)

DigitChar == <<"0", "1", "2", "3", "4", "5", "6", "7", "8", "9">>

\* the decimal digits of the natural number n
RECURSIVE IntStr(_)
IntStr(n) ==
    IF n < 10 THEN <<DigitChar[n + 1]>>
    ELSE IntStr(n \div 10) \o <<DigitChar[(n % 10) + 1]>>

\* a threshold of v tenths, as the names write it: 80 is "8", 85 is "8p5"
ThrStr(v) ==
    IF v % 10 = 0 THEN IntStr(v \div 10)
    ELSE IntStr(v \div 10) \o <<"p">> \o IntStr(v % 10)

Single == <<"S", "i", "n", "g", "l", "e">>
Mu == <<"M", "u">>
EG == <<"E", "G">>
DoubleMu == <<"D", "o", "u", "b", "l", "e", "M", "u">>
DoubleEG == <<"D", "o", "u", "b", "l", "e", "E", "G">>
TripleMu == <<"T", "r", "i", "p", "l", "e", "M", "u">>
QuadMu == <<"Q", "u", "a", "d", "M", "u">>
Sep == <<"_">>
er1p5 == <<"e", "r", "1", "p", "5">>

\* single-object names: L1_SingleMu<threshold><rest>
SinglePt == {10 * n : n \in (MaxPt - 2)..MaxPt} \cup {10 * (MaxPt - 2) + 5}
SingleRests == {<<>>, Sep \o er1p5, er1p5}
SingleName(v, rest) == L1 \o SingleMu \o ThrStr(v) \o rest
SingleNames == {SingleName(v, rest) : v \in SinglePt, rest \in SingleRests}

\* double-object names with both thresholds: L1_DoubleMu<a>_<b>
DoublePt == {5, 6, 8, 10}
DoubleName(a, b) == L1 \o DoubleMu \o IntStr(a) \o Sep \o IntStr(b)
DoubleNames == {DoubleName(a, b) : a \in DoublePt, b \in DoublePt}

\* multi-object names with the first threshold only: L1_<family><a>
Families == {DoubleEG, DoubleMu, TripleMu, QuadMu}
FirstPt == {3, 5, 8, 10}
FirstOnlyName(family, a) == L1 \o family \o IntStr(a)
FirstOnlyNames == {FirstOnlyName(family, a) : family \in Families, a \in FirstPt}

\* triple- and quadruple-object names with all thresholds, in tenths
TripleName(a, b, c) ==
    L1 \o TripleMu \o ThrStr(a) \o Sep \o ThrStr(b) \o Sep \o ThrStr(c)
QuadName(a, b, c, d) ==
    L1 \o QuadMu \o ThrStr(a) \o Sep \o ThrStr(b) \o Sep \o ThrStr(c)
       \o Sep \o ThrStr(d)
TriplePt == {50, 60} \X {30, 35} \X {10, 15, 20}
QuadPt == {50} \X {30, 35} \X {15, 20} \X {10, 15}
TripleQuadNames ==
    {TripleName(t[1], t[2], t[3]) : t \in TriplePt}
        \cup {QuadName(q[1], q[2], q[3], q[4]) : q \in QuadPt}

\* names with an eta restriction: L1_SingleMu5<sep>er<value><rest>; a value
\* is written with its integer part i and its fraction f, or without a
\* fraction (f = -1)
EtaValues ==
    {[i |-> 0, f |-> 0], [i |-> 1, f |-> 5], [i |-> 2, f |-> -1],
     [i |-> 2, f |-> 0], [i |-> 2, f |-> 5]}
EtaTenths(v) == IF v.f < 0 THEN 10 * v.i ELSE 10 * v.i + v.f
EtaStr(v) == IF v.f < 0 THEN IntStr(v.i) ELSE IntStr(v.i) \o <<"p">> \o IntStr(v.f)
EtaSeps == {Sep, <<>>}
EtaRests == {<<>>, OQ}
NoErName(rest) == L1 \o SingleMu \o <<"5">> \o rest
ErName(sep, v, rest) == L1 \o SingleMu \o <<"5">> \o sep \o er \o EtaStr(v) \o rest
ErNames ==
    {NoErName(rest) : rest \in EtaRests}
        \cup {ErName(sep, v, rest) : sep \in EtaSeps, v \in EtaValues, rest \in EtaRests}

\* names with an isolation level (Iso, LooseIso or none, written <<>>),
\* before the object as in L1_SingleIsoMu5 or after the threshold as in
\* L1_SingleMu5_Iso
IsoLevels == {Iso, LooseIso, <<>>}
IsoObjects == {Mu, EG}
IsoPlaces == {"before", "after"}
IsoName(object, level, place) ==
    IF place = "before" THEN L1 \o Single \o level \o object \o <<"5">>
    ELSE IF level = <<>> THEN L1 \o Single \o object \o <<"5">>
    ELSE L1 \o Single \o object \o <<"5">> \o Sep \o level
IsoNames ==
    {IsoName(object, level, place) :
        object \in IsoObjects, level \in IsoLevels, place \in IsoPlaces}
\* 2 for Iso, 1 for LooseIso, 0 for none
IsoRank(level) == IF level = Iso THEN 2 ELSE IF level = LooseIso THEN 1 ELSE 0

\* muon names with at most one quality token: L1_<family><rest><token>
MuonFamilies == {SingleMu, DoubleMu, TripleMu, QuadMu}
QualityTokens == {<<>>, SQ, DQ, OQ}
QualityRests == {<<"7">>, <<"7">> \o Sep \o er1p5}
QualityName(family, rest, token) == L1 \o family \o rest \o token
QualityNames ==
    {QualityName(family, rest, token) :
        family \in MuonFamilies, rest \in QualityRests, token \in QualityTokens}
\* the effective quality: 2 for SQ, 1 for DQ, 0 for OQ, with the default of
\* the family when there is no token
QualityRank(family, token) ==
    IF token = SQ THEN 2
    ELSE IF token = DQ THEN 1
    ELSE IF token = OQ THEN 0
    ELSE IF family = SingleMu THEN 2 ELSE 1

InitSingle == InitCall(SingleNames)
SpecSingle == InitSingle /\ [][NextCall]_vars

InitDouble == InitCall(DoubleNames)
SpecDouble == InitDouble /\ [][NextCall]_vars

InitFirstOnly == InitCall(FirstOnlyNames)
SpecFirstOnly == InitFirstOnly /\ [][NextCall]_vars

InitTripleQuad == InitCall(TripleQuadNames)
SpecTripleQuad == InitTripleQuad /\ [][NextCall]_vars

InitER == InitCall(ErNames)
SpecER == InitER /\ [][NextCall]_vars

InitIso == InitCall(IsoNames)
SpecIso == InitIso /\ [][NextCall]_vars

InitQuality == InitCall(QualityNames)
SpecQuality == InitQuality /\ [][NextCall]_vars

----------------------------------------------------------------------------
(* get_seed_basename and convert_to_float called on one input *)

CallBasename ==
    /\ pc = "call"
    /\ called = "none"
    /\ called' = "get_seed_basename"
    /\ result' = get_seed_basename(call.seed)
    /\ UNCHANGED <<call, tableVars>>

CallConvert ==
    /\ pc = "call"
    /\ called = "none"
    /\ called' = "convert_to_float"
    /\ result' = convert_to_float(call.val)
    /\ UNCHANGED <<call, tableVars>>

\* the arguments of the call are drawn from Calls
InitInputs(Calls) ==
    /\ call \in Calls
    /\ called = "none"
    /\ result = Negative
    /\ table = <<>>
    /\ idx = 0
    /\ signal_seeds = <<>>
    /\ backup_seeds = <<>>
    /\ backup_seeds_info = <<>>
    /\ pc = "call"

RECURSIVE Flatten(_)
Flatten(chunks) ==
    IF chunks = <<>> THEN <<>> ELSE Head(chunks) \o Flatten(Tail(chunks))

\* the strings made of at most MaxChunks of the given chunks
StringsOf(Chunks) ==
    {Flatten(c) : c \in UNION {[1..n -> Chunks] : n \in 0..MaxChunks}}

BasenameChunks == {L1, <<"A">>, <<"5">>, Sep}

InitBasename == InitInputs([seed : StringsOf(BasenameChunks)])
SpecBasename == InitBasename /\ [][CallBasename]_vars

\* val is a str of these chunks, or None
FloatChunks ==
    {<<"5">>, <<"1", "0">>, <<"p">>, Sep, <<"e">>, <<"i", "n", "f">>, <<"n", "a", "n">>}

InitConvert == InitInputs([val : StringsOf(FloatChunks) \cup {NoneStr}])
SpecConvert == InitConvert /\ [][CallConvert]_vars

\* names for the checks that all criteria share: with and without the
\* prefix L1_, with two quality tokens, with a quality token before the rest
\* of the basename
Open == <<"O", "p", "e", "n">>
NoPrefix(name) == SubSeq(name, Len(L1) + 1, Len(name))
GateNames ==
    {L1 \o SingleMu \o <<"5">>,
     L1 \o SingleMu \o <<"7">>,
     L1 \o SingleMu \o <<"7">> \o SQ \o DQ,
     L1 \o SingleMu \o SQ \o Open \o <<"7">>,
     L1 \o SingleMu \o Open \o <<"7">> \o OQ,
     ErName(<<>>, [i |-> 2, f |-> 5], <<>>),
     NoPrefix(ErName(<<>>, [i |-> 2, f |-> 0], <<>>)),
     NoPrefix(ErName(<<>>, [i |-> 2, f |-> 5], <<>>)),
     NoPrefix(L1 \o SingleMu \o <<"7">>)}

InitGate == InitCall(GateNames)
SpecGate == InitGate /\ [][NextCall]_vars

----------------------------------------------------------------------------
\* names of one family with no cut, one cut, the same cut twice and two
\* different cuts of one kind, and with one and two quality tokens
p4 == <<"1", "p", "4">>
p6 == <<"1", "p", "6">>
CutPairs ==
    {<<er1p5, er \o <<"2", "p", "0">>>>,
     <<dR_Max \o p4, dR_Max \o p6>>,
     <<dR_Min \o p4, dR_Min \o p6>>,
     <<Mass \o <<"8">> \o to \o <<"1", "4">>, Mass \o <<"7">> \o to \o <<"1", "8">>>>,
     <<Iso, LooseIso>>}
CutRests(p) ==
    {Sep \o p[1], Sep \o p[2],
     Sep \o p[1] \o Sep \o p[1],
     Sep \o p[2] \o Sep \o p[2],
     Sep \o p[1] \o Sep \o p[2]}
DoubleMu5 == L1 \o DoubleMu \o <<"5">>
CriterionNames ==
    {DoubleMu5, L1 \o DoubleMu \o <<"7">>,
     DoubleMu5 \o SQ, DoubleMu5 \o OQ, DoubleMu5 \o SQ \o OQ}
    \cup {DoubleMu5 \o rest : rest \in UNION {CutRests(p) : p \in CutPairs}}

InitCriteria == InitCall(CriterionNames)
SpecCriteria == InitCriteria /\ [][NextCall]_vars

----------------------------------------------------------------------------
(* Properties of the classifier *)

\* C1: every row the loop has passed is in exactly one of the two outputs:
\* the signal and backup sets are disjoint, no row is in one of them twice,
\* and when the tables are returned len(signal) + len(backup) is the number
\* of rows.
C1_Partition ==
    /\ Range(signal_seeds) \cap Range(backup_seeds) = {}
    /\ Range(signal_seeds) \cup Range(backup_seeds) = 1..idx
    /\ Len(signal_seeds) + Len(backup_seeds) = idx
    /\ pc = "done" => Len(signal_seeds) + Len(backup_seeds) = Len(table)

\* the tables are returned with a row in each
C1_Witness ==
    /\ pc = "done"
    /\ Len(table) = 2
    /\ Len(signal_seeds) = 1
    /\ Len(backup_seeds) = 1

\* some criterion fires for row i of t against row j
Fires(t, i, j) ==
    /\ IsStr(t[i].name) /\ IsStr(t[j].name)
    /\ \E c \in Range(criterion_functions) :
           Apply(c, t[i].name, t[i].prescale, t[j].name, t[j].prescale).is_backup

FiredAgainstOther(t, i) == \E j \in DOMAIN t \ {i} : Fires(t, i, j)

\* C2: a row is in the backup set iff some criterion fired for it against
\* some OTHER row of the table, and in the signal set otherwise.
C2_BackupIffOtherRow ==
    /\ \A k \in DOMAIN backup_seeds : FiredAgainstOther(table, backup_seeds[k])
    /\ \A k \in DOMAIN signal_seeds : ~FiredAgainstOther(table, signal_seeds[k])

----------------------------------------------------------------------------
(* Properties of criterion_pT *)

PtCall(seed_name, otherseed_name) ==
    called = "pT" /\ call.seed = seed_name /\ call.otherseed = otherseed_name

\* C3: single-object names that are identical except for the threshold
\* directly after the basename: criterion_pT reports seed as backup to
\* otherseed iff the threshold of seed is strictly greater.
C3_SingleThreshold ==
    \A v \in SinglePt, w \in SinglePt, rest \in SingleRests :
        PtCall(SingleName(v, rest), SingleName(w, rest))
            => (result.is_backup <=> v > w)

\* every positional threshold of a is >= that of b, and one is greater
Dominates(a, b) ==
    /\ \A k \in DOMAIN a : a[k] >= b[k]
    /\ \E k \in DOMAIN a : a[k] > b[k]

\* C4: double-object names with both thresholds on both names: criterion_pT
\* reports seed as backup to otherseed iff each threshold of seed is >= the
\* other's and at least one is strictly greater.
C4_DoubleDominance ==
    \A a \in DoublePt, b \in DoublePt, c \in DoublePt, d \in DoublePt :
        PtCall(DoubleName(a, b), DoubleName(c, d))
            => (result.is_backup <=> Dominates(<<a, b>>, <<c, d>>))

\* C5: double-, triple- and quadruple-object names that give the first
\* threshold only: criterion_pT reports seed as backup to otherseed iff the
\* sole threshold of seed is strictly greater.
C5_FirstThresholdOnly ==
    \A family \in Families, a \in FirstPt, b \in FirstPt :
        PtCall(FirstOnlyName(family, a), FirstOnlyName(family, b))
            => (result.is_backup <=> a > b)

\* C6: triple- and quadruple-object names with all thresholds on both names,
\* integers or p-encoded decimals: criterion_pT reports seed as backup to
\* otherseed iff every threshold of seed is >= the other's and at least one
\* is strictly greater.
C6_TripleQuadDominance ==
    /\ \A t \in TriplePt, u \in TriplePt :
           PtCall(TripleName(t[1], t[2], t[3]), TripleName(u[1], u[2], u[3]))
               => (result.is_backup <=> Dominates(t, u))
    /\ \A q \in QuadPt, r \in QuadPt :
           PtCall(QuadName(q[1], q[2], q[3], q[4]), QuadName(r[1], r[2], r[3], r[4]))
               => (result.is_backup <=> Dominates(q, r))

----------------------------------------------------------------------------
(* Properties of criterion_er *)

ErCall(seed_name, otherseed_name) ==
    called = "er" /\ call.seed = seed_name /\ call.otherseed = otherseed_name

\* C7: a seed with one eta restriction of a strictly positive value is
\* reported by criterion_er as backup to the same name without the eta
\* restriction.
C7_ExplicitBeatsNone ==
    \A sep \in EtaSeps, v \in EtaValues, rest \in EtaRests :
        (ErCall(ErName(sep, v, rest), NoErName(rest)) /\ EtaTenths(v) > 0)
            => result.is_backup

\* C8: for two names identical except for the value of their single er
\* token, criterion_er reports seed as backup to otherseed, naming otherseed
\* and the eta restriction, iff the value of seed is strictly smaller; with
\* equal values the result is negative.
C8_BothExplicit ==
    \A sep \in EtaSeps, v \in EtaValues, w \in EtaValues, rest \in EtaRests :
        ErCall(ErName(sep, v, rest), ErName(sep, w, rest))
            => IF EtaTenths(v) < EtaTenths(w)
               THEN result = [is_backup |-> TRUE,
                              signal_seed |-> ErName(sep, w, rest),
                              criterion |-> "eta restriction"]
               ELSE result = Negative

\* L1_SingleMu5_er2p0 found a backup to L1_SingleMu5_er2p5
C8_Witness ==
    /\ ErCall(ErName(Sep, [i |-> 2, f |-> 0], <<>>), ErName(Sep, [i |-> 2, f |-> 5], <<>>))
    /\ result.is_backup

----------------------------------------------------------------------------
(* Properties of criterion_isolation *)

IsoCall(seed_name, otherseed_name) ==
    called = "isolation" /\ call.seed = seed_name /\ call.otherseed = otherseed_name

\* C9: a name is an isolation backup to the name with its isolation token
\* replaced by a strictly looser level, in the order Iso > LooseIso > none,
\* wherever the token stands: L1_SingleIsoMu5 to L1_SingleLooseIsoMu5 and
\* L1_SingleLooseIsoMu5 to L1_SingleMu5.
C9_IsolationChain ==
    \A object \in IsoObjects, place \in IsoPlaces,
       level \in IsoLevels, looser \in IsoLevels :
        (IsoCall(IsoName(object, level, place), IsoName(object, looser, place))
            /\ IsoRank(level) > IsoRank(looser))
            => result.is_backup

----------------------------------------------------------------------------
(* Properties of criterion_quality *)

QualityCall(seed_name, otherseed_name) ==
    called = "quality" /\ call.seed = seed_name /\ call.otherseed = otherseed_name

\* C10: for muon names of one family with at most one quality token each,
\* criterion_quality reports seed as backup to otherseed iff the names are
\* identical without their quality tokens and the effective quality of seed
\* (SQ for single-muon and DQ for multi-muon names without a token) is
\* strictly tighter in the order SQ > DQ > OQ; a seed with _OQ is never a
\* quality backup.
C10_Quality ==
    /\ \A family \in MuonFamilies, rest \in QualityRests, other_rest \in QualityRests,
          token \in QualityTokens, other_token \in QualityTokens :
           QualityCall(QualityName(family, rest, token),
                       QualityName(family, other_rest, other_token))
               => (result.is_backup <=>
                      /\ rest = other_rest
                      /\ QualityRank(family, token) > QualityRank(family, other_token))
    /\ \A family \in MuonFamilies, rest \in QualityRests :
           (called = "quality" /\ call.seed = QualityName(family, rest, OQ))
               => result = Negative

\* L1_DoubleMu7 found a backup to L1_DoubleMu7_OQ by the default quality
C10_Witness ==
    /\ QualityCall(QualityName(DoubleMu, <<"7">>, <<>>), QualityName(DoubleMu, <<"7">>, OQ))
    /\ result = [is_backup |-> TRUE,
                 signal_seed |-> QualityName(DoubleMu, <<"7">>, OQ),
                 criterion |-> "muon quality"]

----------------------------------------------------------------------------
(* Properties of has_signal_seed and of the order of the rows *)

\* rows i and j of the table hold the same name, row j with the smaller prescale
Duplicates(i, j) ==
    /\ i # j
    /\ IsStr(table[i].name)
    /\ table[i].name = table[j].name
    /\ table[j].prescale < table[i].prescale

\* C11: in a table of two rows with the identical name and prescales p < q,
\* the prescale-q row is a backup whose evidence is the one entry
\* (name, "prescale"), and no criterion fires for the prescale-p row against
\* the prescale-q row.
C11_PrescaleDuplicates ==
    \A i \in DOMAIN table, j \in DOMAIN table :
        (Duplicates(i, j) /\ idx = Len(table))
            => /\ \E k \in DOMAIN backup_seeds :
                      /\ backup_seeds[k] = i
                      /\ backup_seeds_info[k] =
                             [seed |-> table[i].name,
                              signal_seeds |-> <<table[j].name>>,
                              criteria |-> <<"prescale">>]
               /\ ~Fires(table, j, i)

\* the fixed order of the criteria, and the label each one reports
ClaimedOrder ==
    <<"prescale", "pT", "er", "dRmax", "dRmin", "MassXtoY", "quality", "isolation">>

ClaimedLabel ==
    ("prescale" :> "prescale") @@ ("pT" :> "pT") @@ ("er" :> "eta restriction") @@
    ("dRmax" :> "dR_Max") @@ ("dRmin" :> "dR_Min") @@ ("MassXtoY" :> "MassXtoY") @@
    ("quality" :> "muon quality") @@ ("isolation" :> "isolation")

\* the combinations <<row, criterion number>> that fire for row i of t
FiredCombinations(t, i) ==
    {c \in (DOMAIN t) \X (DOMAIN ClaimedOrder) :
        /\ IsStr(t[i].name) /\ IsStr(t[c[1]].name)
        /\ Apply(ClaimedOrder[c[2]], t[i].name, t[i].prescale,
                 t[c[1]].name, t[c[1]].prescale).is_backup}

\* the place of combination c among the combinations F, by row and then by
\* criterion
Place(F, c) ==
    Cardinality({d \in F : d[1] < c[1] \/ (d[1] = c[1] /\ d[2] <= c[2])})

\* F is not empty and the evidence info holds one entry per combination of
\* F, in that order
EvidenceOf(t, F, info) ==
    /\ F # {}
    /\ Len(info.signal_seeds) = Cardinality(F)
    /\ Len(info.criteria) = Cardinality(F)
    /\ \A c \in F :
           /\ info.signal_seeds[Place(F, c)] = t[c[1]].name
           /\ info.criteria[Place(F, c)] = ClaimedLabel[ClaimedOrder[c[2]]]

\* C12: the two lists has_signal_seed returns are of equal length and hold
\* one (name of the other seed, label) entry per (row, criterion) combination
\* that fired, ordered by row and within a row by the fixed order of the
\* criteria; the seed is a backup iff the lists are not empty.
C12_Evidence ==
    /\ \A k \in DOMAIN backup_seeds :
           EvidenceOf(table, FiredCombinations(table, backup_seeds[k]),
                      backup_seeds_info[k])
    /\ \A k \in DOMAIN signal_seeds :
           FiredCombinations(table, signal_seeds[k]) = {}

\* two criteria fired against one row and one against a second row
C12_Witness ==
    \E k \in DOMAIN backup_seeds_info :
        backup_seeds_info[k].criteria = <<"prescale", "muon quality", "muon quality">>

\* C16: the rows of the signal output and the rows of the backup output are
\* in the order of the input table.
C16_RowOrder ==
    /\ \A k \in DOMAIN signal_seeds, l \in DOMAIN signal_seeds :
           k < l => signal_seeds[k] < signal_seeds[l]
    /\ \A k \in DOMAIN backup_seeds, l \in DOMAIN backup_seeds :
           k < l => backup_seeds[k] < backup_seeds[l]
    /\ \A k \in DOMAIN backup_seeds :
           backup_seeds_info[k].seed = table[backup_seeds[k]].name

\* two rows were appended to the signal output
C16_Witness == pc = "done" /\ Len(signal_seeds) = 2

----------------------------------------------------------------------------
(* Properties of rows whose name is not a str *)

IsStrRow(row) == IsStr(row.name)

\* the table without the rows whose name is not a str
StrRows(t) == SelectSeq(t, IsStrRow)

\* what has_signal_seed returns for row i of t when the rows whose name is
\* not a str are absent from the table
WithoutOthers(t, i) ==
    has_signal_seed(t[i].name, t[i].prescale,
                    names_column(StrRows(t)), PS_column(StrRows(t)))

\* C17: a row whose name is not a str raises no error, is placed in the
\* signal output, is in the evidence of no row, and leaves the
\* classification and the evidence of every other row as they are without it.
C17_NonStringName ==
    /\ pc # "error"
    /\ \A i \in 1..idx : ~IsStr(table[i].name) => i \in Range(signal_seeds)
    /\ \A k \in DOMAIN backup_seeds :
           /\ \A n \in Range(backup_seeds_info[k].signal_seeds) : IsStr(n)
           /\ WithoutOthers(table, backup_seeds[k])
                  = [is_backup_seed |-> TRUE,
                     identified_signal_seeds |-> backup_seeds_info[k].signal_seeds,
                     criteria |-> backup_seeds_info[k].criteria,
                     raised |-> FALSE]
    /\ \A k \in DOMAIN signal_seeds :
           IsStr(table[signal_seeds[k]].name)
               => ~WithoutOthers(table, signal_seeds[k]).is_backup_seed

\* a table with a name that is not a str was classified, a backup row
\* beside it
C17_Witness ==
    /\ pc = "done"
    /\ Len(backup_seeds) = 1
    /\ \E i \in DOMAIN table : ~IsStr(table[i].name) /\ i \in Range(signal_seeds)

----------------------------------------------------------------------------
(* Properties of the rows classified in any order *)

----------------------------------------------------------------------------
(* Properties that all criteria share *)

\* C13: a seed is never a backup to itself: every criterion called with
\* seed = otherseed and prescale = otherprescale returns a negative result.
C13_NeverSelfBackup ==
    (called # "none" /\ call.seed = call.otherseed /\ call.prescale = call.otherprescale)
        => result = Negative

\* C19: for two names whose basenames differ every criterion returns a
\* negative result.
C19_BasenameGate ==
    (called # "none" /\ get_seed_basename(call.seed) # get_seed_basename(call.otherseed))
        => result = Negative

\* C20: when seed or otherseed does not start with L1_, each of the seven
\* cut parsers returns a negative result.
C20_NullBasename ==
    (/\ called \notin {"none", "prescale"}
     /\ ~(startswith(call.seed, L1) /\ startswith(call.otherseed, L1)))
        => result = Negative

----------------------------------------------------------------------------
(* Properties of get_seed_basename and convert_to_float *)

\* s up to the first of its elements that is in chars, all of s without one
PrefixBefore(s, chars) ==
    IF \E i \in DOMAIN s : s[i] \in chars
    THEN SubSeq(s, 1, (CHOOSE i \in DOMAIN s :
                           /\ s[i] \in chars
                           /\ \A j \in 1..(i - 1) : s[j] \notin chars) - 1)
    ELSE s

\* the documented algorithm: null without the leading prefix; else the
\* prefix is removed, the text before the first '_' is kept and truncated
\* at its first digit, and the prefix is put back
DocumentedBasename(name) ==
    IF Len(name) < Len(L1) \/ SubSeq(name, 1, Len(L1)) # L1 THEN NoneStr
    ELSE L1 \o PrefixBefore(PrefixBefore(SubSeq(name, Len(L1) + 1, Len(name)), {"_"}),
                            Digits)

\* C14: get_seed_basename(name) is the result of the documented algorithm.
C14_BasenameAlgorithm ==
    called = "get_seed_basename" => result = DocumentedBasename(call.seed)

NotUnderscore(c) == c # "_"

\* s is <digits> or <digits>p<digits>
NumericLiteral(s) ==
    /\ s # <<>>
    /\ \A i \in DOMAIN s : s[i] \in Digits \cup {"p"}
    /\ Cardinality({i \in DOMAIN s : s[i] = "p"}) <= 1
    /\ s[1] # "p"
    /\ s[Len(s)] # "p"

\* C15: convert_to_float returns a number exactly for the inputs that,
\* with their underscores removed, are <digits> or <digits>p<digits>, and
\* None for every other input, None included.
C15_NumericDecoder ==
    called = "convert_to_float"
        => (result # NoneFloat
                <=> (call.val # NoneStr
                         /\ NumericLiteral(SelectSeq(call.val, NotUnderscore))))

----------------------------------------------------------------------------
(* Properties of the criteria on names with several cuts and tokens *)

CutCriteria == {"er", "dRmax", "dRmin", "MassXtoY", "isolation"}

CutPattern(criterion) ==
    CASE criterion = "er" -> er
      [] criterion = "dRmax" -> dR_Max
      [] criterion = "dRmin" -> dR_Min
      [] criterion = "MassXtoY" -> Mass
      [] criterion = "isolation" -> Iso

\* the number of places of the name s where a cut of the kind pat stands;
\* an isolation flag, loose or not, stands where its "Iso" stands
Occurrences(pat, s) ==
    Cardinality({i \in 1..Len(s) : IF pat = Iso THEN MatchAt(s, i, Iso)
                                                ELSE MatchLen(pat, s, i) > 0})

Ambiguous(criterion, s) == Occurrences(CutPattern(criterion), s) > 1

\* C21: when seed or otherseed holds more than one occurrence of the pattern
\* of the eta, dRmax, dRmin, mass-window or isolation criterion, that
\* criterion returns the negative result for the pair, whichever of the two
\* names is the seed.
C21_ParseAmbiguity ==
    (/\ called \in CutCriteria
     /\ Ambiguous(called, call.seed) \/ Ambiguous(called, call.otherseed))
        => result = Negative

\* the eta criterion was called on two names that hold one restriction twice
\* each, differ in nothing else, and of which the seed has the smaller value
C21_Witness ==
    /\ called = "er"
    /\ call.seed = DoubleMu5 \o Sep \o er1p5 \o Sep \o er1p5
    /\ call.otherseed # call.seed
    /\ Occurrences(er, call.otherseed) = 2
    /\ Stripped(call.seed, search(er, call.seed), FALSE)
       = Stripped(call.otherseed, search(er, call.otherseed), FALSE)
    /\ result = Negative

\* C22: every criterion returns (True, otherseed, its label) or
\* (False, None, None).
C22_WellFormed ==
    called # "none"
        => IF result.is_backup
           THEN /\ result.signal_seed = call.otherseed
                /\ result.criterion = ClaimedLabel[called]
           ELSE /\ result.signal_seed = NoneStr
                /\ result.criterion = "None"

\* a criterion returned a positive result
C22_Witness ==
    /\ called = "MassXtoY"
    /\ result.is_backup
    /\ result.signal_seed = DoubleMu5

\* some criterion identifies the seed a as backup to b
BackupTo(a, pa, b, pb) ==
    \E k \in DOMAIN criterion_functions :
        Apply(criterion_functions[k], a, pa, b, pb).is_backup

\* C23: for two different names, when a criterion identifies seed as backup
\* to otherseed, no criterion identifies otherseed as backup to seed.
C23_Asymmetric ==
    (called # "none" /\ call.seed # call.otherseed /\ result.is_backup)
        => ~BackupTo(call.otherseed, call.otherprescale, call.seed, call.prescale)

====
